---- MODULE Spec2Model ----
(***************************************************************************)
(* TinyTorch API service (src/app.py): the executable resolver that runs   *)
(* at import time, and the command execution gateway execute_tito_command  *)
(* as it is reached through the /api/v1/tito/command handler.              *)
(*                                                                         *)
(* A Python str is a sequence of tokens: every whitespace character is a   *)
(* token of its own and a maximal run of other characters is one token.    *)
(* Concatenation (f-strings) is \o. Python's None is the value None below. *)
(***************************************************************************)
EXTENDS Integers, Sequences, FiniteSets, TLC

VARIABLES
    pc,           \* "import" | "resolved" | "serving": how far the module got
    TITO_PATH,    \* module global of src/app.py:61
    resolveCalls, \* number of calls of find_tito_executable so far
    probe,        \* what the resolver was given and touched while it ran
    environ,      \* os.environ of the service process
    req,          \* JSON body of the request in hand
    call,         \* frame of execute_tito_command while subprocess.run blocks
    child,        \* the tito process: "none" | "running" | "exited" | "killed"
    proc,         \* what the tito process did (exit code, output, duration)
    spawns,       \* subprocess.run invocations made for the request in hand
    outcome,      \* how execute_tito_command ended: value returned or raised
    resp,         \* HTTP response of the handler
    log,          \* records execute_tito_command gave the logger for this request
    threads,      \* frames of execute_tito_command on concurrent request threads
    transcoder,   \* the script or document the Cell-Marker Transcoder works on
    served        \* the request a handler other than the custom-command one served

vars == <<pc, TITO_PATH, resolveCalls, probe, environ, req, call, child, proc,
          spawns, outcome, resp, log, threads, transcoder, served>>

------------------------------------------------------------------------------
(* Bounds *)

\* longest stdout / stderr of the tito process, in tokens
MaxLen == 2
\* largest exit code of the tito process
MaxCode == 2

------------------------------------------------------------------------------
(* Strings *)

None == <<"None">>

Whitespace == {" ", "\n"}

RECURSIVE lstrip(_)
lstrip(s) ==
    IF s # <<>> /\ Head(s) \in Whitespace THEN lstrip(Tail(s)) ELSE s

RECURSIVE rstrip(_)
rstrip(s) ==
    IF s # <<>> /\ s[Len(s)] \in Whitespace
    THEN rstrip(SubSeq(s, 1, Len(s) - 1))
    ELSE s

\* str.strip(): whitespace removed at both ends
strip(s) == lstrip(rstrip(s))

TextsOver(alphabet) == UNION {[1..n -> alphabet] : n \in 0..MaxLen}

\* what the tito process may write
OutTexts == TextsOver({" ", "out"})
ErrTexts == TextsOver({" ", "err"})

------------------------------------------------------------------------------
(* Executable resolver, src/app.py:34-61 *)

possible_locations ==
    << <<"/app/venv/bin/tito">>,
       <<"/app/TinyTorch/bin/tito">>,
       <<"/app/TinyTorch/tito">>,
       <<"/app/TinyTorch/cli/tito">>,
       <<"/usr/local/bin/tito">> >>

Locations == 1..Len(possible_locations)

\* a file is absent, present without the x bit for this user, or executable
FileStates == {"missing", "noexec", "exec"}

os_path_exists(f) == f # "missing"
os_access_X_OK(f) == f = "exec"

\* results of `which tito`: exit 1 and no output, or exit 0 and the path it found
WhichMiss == [returncode |-> 1, stdout |-> <<>>]
WhichHit(p) == [returncode |-> 0, stdout |-> <<p, "\n">>]

\* the filesystems and PATH lookups the service may start in; /usr/local/bin/tito
\* is found on PATH only if it is there and executable
StartEnvs ==
    {e \in [which : {WhichMiss, WhichHit("/usr/bin/tito"), WhichHit("/usr/local/bin/tito")},
            files : [Locations -> FileStates]] :
        e.which = WhichHit("/usr/local/bin/tito") => e.files[5] = "exec"}

\* the location test of the loop, src/app.py:53
location_ok_exists_only(f) == os_path_exists(f)
location_ok(f) == os_path_exists(f) /\ os_access_X_OK(f)

\* the loop over possible_locations from index i on; checked collects the
\* locations whose existence was tested
RECURSIVE check_locations(_, _, _)
check_locations(files, i, checked) ==
    IF i > Len(possible_locations)
    THEN [path |-> None, checked |-> checked]
    ELSE IF location_ok(files[i])
         THEN [path |-> possible_locations[i], checked |-> checked \cup {i}]
         ELSE check_locations(files, i + 1, checked \cup {i})

find_tito_executable_locations_first(which, files) ==
    LET found == check_locations(files, 1, {})
    IN  IF found.path # None
        THEN found
        ELSE IF which.returncode = 0
             THEN [path |-> strip(which.stdout), checked |-> found.checked]
             ELSE found

find_tito_executable(which, files) ==
    IF which.returncode = 0
    THEN [path |-> strip(which.stdout), checked |-> {}]
    ELSE check_locations(files, 1, {})

NoProbe == [which |-> WhichMiss, files |-> [i \in Locations |-> "missing"], checked |-> {}]

------------------------------------------------------------------------------
(* Values of the gateway *)

NoReq == [json |-> FALSE, args |-> [tag |-> "absent", items |-> <<>>],
          timeout |-> 0, cwd |-> None]
NoCall == [command |-> <<>>, shell |-> FALSE,
           env |-> [PYTHONPATH |-> None, PYTHON |-> None],
           cwd |-> None,
           fs |-> [dirs |-> <<FALSE, FALSE>>, python |-> FALSE, exe |-> "missing"]]
NoProc == [returncode |-> 0, stdout |-> <<>>, stderr |-> <<>>, dur |-> 0]
NoOutcome == [kind |-> "none", branch |-> "none", type |-> "none", value |-> <<>>]
NoResp == [code |-> 0, status |-> "none", text |-> <<>>]

Return(v) == [kind |-> "return", branch |-> "success", type |-> "str", value |-> v]
Raise(branch, type, message) ==
    [kind |-> "raise", branch |-> branch, type |-> type, value |-> message]

------------------------------------------------------------------------------
(* execute_tito_command, src/app.py:64-127 *)

\* timeout=60 of subprocess.run
Timeout == 60

\* wall-clock durations of a tito run, in seconds
Durations == {1, 45, 90}

tinytorch_paths == << <<"/app/TinyTorch">>, <<"/app/tinytorch">> >>

\* what one call finds on disk: the two package directories, the venv
\* interpreter, and the file TITO_PATH names
CallFs ==
    [dirs : [1..Len(tinytorch_paths) -> BOOLEAN], python : BOOLEAN, exe : FileStates]

\* a file below /app/TinyTorch is there only if the directory is
FsFits(path, fs) ==
    (path \in {possible_locations[2], possible_locations[3], possible_locations[4]}
        /\ fs.exe # "missing") => fs.dirs[1]

\* the guard of src/app.py:67
tito_missing_never(path) == FALSE
tito_missing(path) == path = None

\* ' '.join(command)
RECURSIVE join(_)
join(strs) ==
    IF strs = <<>> THEN <<>>
    ELSE IF Len(strs) = 1 THEN Head(strs)
    ELSE Head(strs) \o <<" ">> \o join(Tail(strs))

\* command = [TITO_PATH] + args: a list, each argument an element of its own
build_command_joined(path, args) == <<join(<<path>> \o args)>>
build_command(path, args) == <<path>> \o args

\* a logger call: its level and the fixed text at the head of its message. The
\* record of src/app.py:86 (a package directory was added) is left out: it
\* reports neither the attempt nor its outcome.
Info(head) == [level |-> "INFO", head |-> head]
Error(head) == [level |-> "ERROR", head |-> head]

\* logger.info(f"Executing tito command: ..."), src/app.py:72
log_attempt == <<Info("Executing tito command: ")>>
\* src/app.py:103
log_success == <<Info("Command succeeded. Output length: ")>>
\* src/app.py:108-115
log_called_process_error ==
    <<Error("tito command failed. STDERR: "), Error("STDOUT: "), Error("Exit code: "),
      Error("Command was: "), Error("Working directory: "), Error("PYTHONPATH: ")>>
\* src/app.py:121
log_timeout == <<Error("tito command timed out after 60 seconds")>>
\* src/app.py:126
log_file_not_found ==
    <<Error("The 'tito' command was not found. Check Dockerfile and PATH.")>>

NotResolvedError ==
    Raise("not_resolved", "RuntimeError",
          <<"tito executable not found. Check installation.">>)

\* env.get('PYTHONPATH', '')
current_pythonpath(env) == IF env.PYTHONPATH = None THEN <<>> ELSE env.PYTHONPATH

\* the body of the loop for one existing path, src/app.py:81-85
with_path(env, path) ==
    [env EXCEPT !.PYTHONPATH =
        IF current_pythonpath(env) # <<>>
        THEN path \o <<":">> \o current_pythonpath(env)
        ELSE path]

RECURSIVE add_tinytorch_all(_, _, _)
add_tinytorch_all(env, dirs, i) ==
    IF i > Len(tinytorch_paths)
    THEN env
    ELSE IF dirs[i]
         THEN add_tinytorch_all(with_path(env, tinytorch_paths[i]), dirs, i + 1)
         ELSE add_tinytorch_all(env, dirs, i + 1)

\* the loop over tinytorch_paths from index i on, with its break
RECURSIVE add_tinytorch(_, _, _)
add_tinytorch(env, dirs, i) ==
    IF i > Len(tinytorch_paths)
    THEN env
    ELSE IF dirs[i]
         THEN with_path(env, tinytorch_paths[i])
         ELSE add_tinytorch(env, dirs, i + 1)

use_venv_python_always(env, exists) == [env EXCEPT !.PYTHON = <<"/app/venv/bin/python">>]
use_venv_python(env, exists) ==
    IF exists THEN [env EXCEPT !.PYTHON = <<"/app/venv/bin/python">>] ELSE env

\* env = os.environ.copy() and what is done to the copy, src/app.py:75-91
prepare_env(osenv, fs) == use_venv_python(add_tinytorch(osenv, fs.dirs, 1), fs.python)

\* cwd= of subprocess.run, src/app.py:100
spawn_cwd_fixed(tinytorch_exists) == <<"/app/TinyTorch">>
spawn_cwd(tinytorch_exists) ==
    IF tinytorch_exists THEN <<"/app/TinyTorch">> ELSE <<"/app">>

\* return result.stdout.strip()
success_value_rstrip(result) == Return(rstrip(result.stdout))
success_value(result) == Return(strip(result.stdout))

\* except subprocess.CalledProcessError as e
CalledProcessErrorHandler_with_code(e) ==
    Raise("called_process_error", "RuntimeError",
          <<"tito command failed. STDERR: ">> \o strip(e.stderr)
              \o <<"Exit code: ", ToString(e.returncode)>>)
CalledProcessErrorHandler(e) ==
    Raise("called_process_error", "RuntimeError",
          <<"tito command failed. STDERR: ">> \o strip(e.stderr))

\* except subprocess.TimeoutExpired as e
TimeoutExpiredHandler_partial(e) == Return(strip(e.stdout))
TimeoutExpiredHandler(e) ==
    Raise("timeout_expired", "RuntimeError",
          <<"tito command timed out after 60 seconds">>)

\* except FileNotFoundError
FileNotFoundHandler_reraise ==
    Raise("file_not_found", "FileNotFoundError",
          <<"The 'tito' command was not found. Check Dockerfile and PATH.">>)
FileNotFoundHandler ==
    Raise("file_not_found", "RuntimeError",
          <<"The 'tito' command was not found. Check Dockerfile and PATH.">>)

\* subprocess.run cannot execute a file without the x bit: PermissionError,
\* which no except clause of execute_tito_command names
PermissionErrorRaised ==
    Raise("uncaught", "PermissionError", <<"[Errno 13] Permission denied">>)

------------------------------------------------------------------------------
(* execute_custom_tito_command, src/app.py:675-714 *)

\* argument lists a caller sends; an argument may hold whitespace
ArgLists ==
    { << <<"module">>, <<"list">> >>,
      << <<"module">>, <<"info">>, <<"01", " ", "tensor">> >> }

\* a JSON number among the elements of a list: like None, a value that is
\* not a str
JsonNumber == <<"number">>
is_str(v) == v # JsonNumber /\ v # None

\* ' '.join(command) of src/app.py:72 and subprocess.run both raise TypeError
\* for an element that is not a str; no except clause catches it
TypeErrorRaised ==
    Raise("uncaught", "TypeError", <<"sequence item: expected str instance">>)

\* JSON bodies: no JSON at all, no 'args' key, 'args' a string, 'args' a list;
\* a list may hold an element that is not a string; a body may carry further
\* keys ('timeout', 'cwd') next to 'args'
Bodies ==
    {NoReq,
     [NoReq EXCEPT !.json = TRUE],
     [NoReq EXCEPT !.json = TRUE, !.args = [tag |-> "str", items |-> <<>>]],
     [NoReq EXCEPT !.json = TRUE,
                   !.args = [tag |-> "list", items |-> << <<"module">>, JsonNumber >>]]}
    \cup {[NoReq EXCEPT !.json = TRUE, !.args = [tag |-> "list", items |-> a]] :
            a \in ArgLists}
    \cup {[NoReq EXCEPT !.json = TRUE,
                        !.args = [tag |-> "list", items |-> << <<"module">>, <<"list">> >>],
                        !.timeout = 30],
          [NoReq EXCEPT !.json = TRUE,
                        !.args = [tag |-> "list", items |-> << <<"module">>, <<"list">> >>],
                        !.cwd = <<"/tmp/work">>]}

\* the handler's answer to what execute_tito_command returned or raised
internal_error ==
    [code |-> 500, status |-> "error",
     text |-> <<"Internal server error. Check logs for details.">>]

handler_response(o) ==
    IF o.kind = "return"
    THEN [code |-> 200, status |-> "success", text |-> o.value]
    ELSE IF o.type = "RuntimeError"
         THEN [code |-> 500, status |-> "error", text |-> o.value]
         ELSE internal_error

bad_request(message) == [code |-> 400, status |-> "error", text |-> message]

\* effect of a request on the module globals and on os.environ
globals_resolved_again ==
    /\ \E e \in StartEnvs : TITO_PATH' = find_tito_executable(e.which, e.files).path
    /\ resolveCalls' = resolveCalls + 1
    /\ UNCHANGED <<pc, probe, environ>>
globals_kept == UNCHANGED <<pc, TITO_PATH, resolveCalls, probe, environ>>

\* the request ends without a tito process running
Answer(o, r, n) ==
    /\ log' = IF n = 0 THEN <<>>
              ELSE IF o.branch = "file_not_found"
                   THEN log_attempt \o log_file_not_found
                   ELSE log_attempt
    /\ outcome' = o
    /\ resp' = r
    /\ spawns' = n
    /\ call' = NoCall
    /\ child' = "none"
    /\ proc' = NoProc

\* POST /api/v1/tito/command up to the point where subprocess.run blocks
execute_custom_tito_command(data, fs) ==
    /\ pc = "serving"
    /\ child = "none"
    /\ resp = NoResp
    /\ FsFits(TITO_PATH, fs)
    /\ req' = data
    /\ globals_kept
    /\ UNCHANGED <<threads, transcoder, served>>
    /\ IF ~data.json \/ data.args.tag = "absent"
       THEN Answer(NoOutcome,
                   bad_request(<<"Missing 'args' parameter. Send JSON with 'args' array.">>), 0)
       ELSE IF data.args.tag # "list"
       THEN Answer(NoOutcome, bad_request(<<"'args' must be an array of strings">>), 0)
       ELSE IF tito_missing(TITO_PATH)
       THEN Answer(NotResolvedError, handler_response(NotResolvedError), 0)
       ELSE IF \E i \in 1..Len(data.args.items) : ~is_str(data.args.items[i])
       THEN Answer(TypeErrorRaised, handler_response(TypeErrorRaised), 0)
       ELSE IF fs.exe = "missing"
       THEN Answer(FileNotFoundHandler, handler_response(FileNotFoundHandler), 1)
       ELSE IF fs.exe = "noexec"
       THEN Answer(PermissionErrorRaised, handler_response(PermissionErrorRaised), 1)
       ELSE /\ call' = [command |-> build_command(TITO_PATH, data.args.items),
                        shell |-> FALSE,
                        env |-> prepare_env(environ, fs),
                        cwd |-> spawn_cwd(fs.dirs[1]),
                        fs |-> fs]
            /\ spawns' = 1
            /\ child' = "running"
            /\ proc' = NoProc
            /\ outcome' = NoOutcome
            /\ resp' = NoResp
            /\ log' = log_attempt

\* the tito process exits within the timeout: subprocess.run returns or, with
\* check=True and a nonzero exit code, raises CalledProcessError
tito_exits(p) ==
    /\ child = "running"
    /\ p.dur < Timeout
    /\ child' = "exited"
    /\ proc' = p
    /\ call' = NoCall
    /\ outcome' = IF p.returncode = 0 THEN success_value(p) ELSE CalledProcessErrorHandler(p)
    /\ log' = log \o (IF p.returncode = 0 THEN log_success ELSE log_called_process_error)
    /\ resp' = handler_response(outcome')
    /\ globals_kept
    /\ UNCHANGED <<req, spawns, threads, transcoder, served>>

\* a gateway that spawns the command again after a timeout
tito_times_out_retry(p) ==
    /\ child = "running"
    /\ p.dur > Timeout
    /\ spawns' = spawns + 1
    /\ log' = log \o log_timeout
    /\ globals_kept
    /\ UNCHANGED <<req, call, child, proc, outcome, resp, threads, transcoder, served>>

\* the tito process is still running after the timeout: subprocess.run kills
\* it and raises TimeoutExpired, which carries the output read so far
tito_times_out(p) ==
    /\ child = "running"
    /\ p.dur > Timeout
    /\ child' = "killed"
    /\ proc' = p
    /\ call' = NoCall
    /\ outcome' = TimeoutExpiredHandler(p)
    /\ log' = log \o log_timeout
    /\ resp' = handler_response(outcome')
    /\ globals_kept
    /\ UNCHANGED <<req, spawns, threads, transcoder, served>>

\* the response is sent; the request, the result and the reaped process are
\* dropped and the worker takes the next request
request_done ==
    /\ pc = "serving"
    /\ resp # NoResp
    /\ req' = NoReq
    /\ call' = NoCall
    /\ child' = "none"
    /\ proc' = NoProc
    /\ spawns' = 0
    /\ outcome' = NoOutcome
    /\ resp' = NoResp
    /\ log' = <<>>
    /\ globals_kept
    /\ UNCHANGED <<threads, transcoder, served>>

\* behaviours of a tito process; one that is killed has no exit code of its own
Exits == [returncode : 0..MaxCode, stdout : OutTexts, stderr : ErrTexts,
          dur : {d \in Durations : d < Timeout}]
Overruns == [returncode : {0}, stdout : OutTexts, stderr : ErrTexts,
             dur : {d \in Durations : d > Timeout}]

------------------------------------------------------------------------------
(* execute_tito_command on concurrent request threads, src/app.py:64-127 *)

\* request threads of the server
Threads == {1, 2}

IdleThread ==
    [state |-> "idle", args |-> <<>>, command |-> <<>>, env |-> NoCall.env,
     cwd |-> None, fs |-> NoCall.fs, proc |-> NoProc, outcome |-> NoOutcome]

\* what a thread may find on disk, and what its tito process may do
ThreadFs == {fs \in CallFs : fs.dirs[2] = fs.dirs[1] /\ fs.python = fs.dirs[1]}
ThreadProcs ==
    {[returncode |-> 0, stdout |-> <<"out", " ">>, stderr |-> <<>>, dur |-> 1],
     [returncode |-> 1, stdout |-> <<>>, stderr |-> <<"err">>, dur |-> 1],
     [returncode |-> 0, stdout |-> <<"out">>, stderr |-> <<>>, dur |-> 90]}

serial == <<req, call, child, proc, spawns, outcome, resp, log, transcoder, served>>

\* the prepared env is stored: env is the thread's own copy of os.environ
write_env_shared(t, env, fs) ==
    /\ environ' = env
    /\ threads' = [threads EXCEPT ![t].state = "prepared", ![t].env = env, ![t].fs = fs]
write_env(t, env, fs) ==
    /\ threads' = [threads EXCEPT ![t].state = "prepared", ![t].env = env, ![t].fs = fs]
    /\ UNCHANGED environ

\* a thread enters execute_tito_command: the guard, the command list and
\* env = os.environ.copy(), src/app.py:67-75
thread_enters(t, args) ==
    /\ pc = "serving"
    /\ threads[t].state = "idle"
    /\ threads' = [threads EXCEPT ![t] =
          IF tito_missing(TITO_PATH)
          THEN [IdleThread EXCEPT !.state = "done", !.args = args,
                                  !.outcome = NotResolvedError]
          ELSE [IdleThread EXCEPT !.state = "entered", !.args = args,
                                  !.command = build_command(TITO_PATH, args),
                                  !.env = environ]]
    /\ UNCHANGED <<pc, TITO_PATH, resolveCalls, probe, environ, serial>>

\* the thread looks at the disk and prepares its env, src/app.py:77-91
thread_prepares(t, fs) ==
    /\ threads[t].state = "entered"
    /\ FsFits(TITO_PATH, fs)
    /\ write_env(t, use_venv_python(add_tinytorch(threads[t].env, fs.dirs, 1), fs.python), fs)
    /\ UNCHANGED <<pc, TITO_PATH, resolveCalls, probe, serial>>

\* subprocess.run starts the process or fails to, src/app.py:93-101
thread_spawns(t) ==
    /\ threads[t].state = "prepared"
    /\ threads' = [threads EXCEPT ![t] =
          IF threads[t].fs.exe = "missing"
          THEN [@ EXCEPT !.state = "done", !.outcome = FileNotFoundHandler]
          ELSE IF threads[t].fs.exe = "noexec"
          THEN [@ EXCEPT !.state = "done", !.outcome = PermissionErrorRaised]
          ELSE [@ EXCEPT !.state = "running", !.cwd = spawn_cwd(threads[t].fs.dirs[1])]]
    /\ UNCHANGED <<pc, TITO_PATH, resolveCalls, probe, environ, serial>>

\* the thread's tito process exits, or is killed at the timeout,
\* src/app.py:103-122
thread_child_ends(t, p) ==
    /\ threads[t].state = "running"
    /\ threads' = [threads EXCEPT ![t].state = "done", ![t].proc = p,
          ![t].outcome = IF p.dur > Timeout THEN TimeoutExpiredHandler(p)
                         ELSE IF p.returncode = 0 THEN success_value(p)
                         ELSE CalledProcessErrorHandler(p)]
    /\ UNCHANGED <<pc, TITO_PATH, resolveCalls, probe, environ, serial>>

\* the thread leaves execute_tito_command with its outcome
thread_leaves(t) ==
    /\ threads[t].state = "done"
    /\ threads' = [threads EXCEPT ![t] = IdleThread]
    /\ UNCHANGED <<pc, TITO_PATH, resolveCalls, probe, environ, serial>>

------------------------------------------------------------------------------
(* Cell-Marker Transcoder, spec.md section 4.3 *)

\* bounds of the scripts and documents given to the transcoder
MaxTokens == 3
MaxLines == 3
MaxCells == 2
MaxRounds == 2

NL == "\n"

\* the marker token, the tag of a Markdown marker and the comment prefix put
\* before every line of a Markdown cell
MarkerToken == <<"#", " ", "%%">>
MarkdownTag == "[markdown]"
CommentPrefix == <<"#", " ">>

Cell(kind, content) == [kind |-> kind, content |-> content]

\* a text cut at every newline: n newlines give n + 1 pieces
RECURSIVE split(_)
split(s) ==
    LET newlines == {i \in 1..Len(s) : s[i] = NL}
    IN  IF newlines = {}
        THEN <<s>>
        ELSE LET first == CHOOSE i \in newlines : \A j \in newlines : i <= j
             IN  <<SubSeq(s, 1, first - 1)>> \o split(SubSeq(s, first + 1, Len(s)))

\* the lines of a script; the empty script has no line
script_lines(text) == IF text = <<>> THEN <<>> ELSE split(text)

\* lines joined by newline
RECURSIVE join_lines(_)
join_lines(lines) ==
    IF lines = <<>> THEN <<>>
    ELSE IF Len(lines) = 1 THEN Head(lines)
    ELSE Head(lines) \o <<NL>> \o join_lines(Tail(lines))

startswith(s, prefix) ==
    Len(s) >= Len(prefix) /\ SubSeq(s, 1, Len(prefix)) = prefix

\* a line is a marker if, after trimming, it begins with the marker token
is_marker(line) == startswith(strip(line), MarkerToken)

\* the kind the marker's tag gives the next cell
marker_kind_code(line) == "Code"
marker_kind(line) ==
    IF \E i \in 1..Len(line) : line[i] = MarkdownTag THEN "Markdown" ELSE "Code"

\* close the accumulating cell: it is appended if it has accumulated lines
close_cell_always(doc, kind, buffer) == Append(doc, Cell(kind, join_lines(buffer)))
close_cell(doc, kind, buffer) ==
    IF buffer = <<>> THEN doc ELSE Append(doc, Cell(kind, join_lines(buffer)))

\* the scan of the lines from line i on, with the document so far and the
\* accumulating cell (kind, buffer)
RECURSIVE scan(_, _, _, _, _)
scan(lines, i, doc, kind, buffer) ==
    IF i > Len(lines)
    THEN close_cell(doc, kind, buffer)
    ELSE IF is_marker(lines[i])
         THEN scan(lines, i + 1, close_cell(doc, kind, buffer), marker_kind(lines[i]), <<>>)
         ELSE scan(lines, i + 1, doc, kind, Append(buffer, lines[i]))

\* parseScript(text) -> NotebookDocument
parseScript(text) == scan(script_lines(text), 1, <<>>, "Code", <<>>)

marker_line(kind) ==
    IF kind = "Markdown" THEN MarkerToken \o <<" ", MarkdownTag>> ELSE MarkerToken

\* the lines of a cell's content as they are emitted
content_lines_verbatim(cell) == split(cell.content)
content_lines(cell) ==
    IF cell.kind = "Markdown"
    THEN [i \in 1..Len(split(cell.content)) |-> CommentPrefix \o split(cell.content)[i]]
    ELSE split(cell.content)

\* the marker line, the content and the blank line after it
render_cell_no_blank(cell) == <<marker_line(cell.kind)>> \o content_lines(cell)
render_cell(cell) == <<marker_line(cell.kind)>> \o content_lines(cell) \o << <<>> >>

RECURSIVE render_lines(_)
render_lines(doc) ==
    IF doc = <<>> THEN <<>> ELSE render_cell(Head(doc)) \o render_lines(Tail(doc))

\* renderScript(doc) -> text
renderScript(doc) == join_lines(render_lines(doc))

\* scripts: every text of at most MaxTokens tokens, every script of at most
\* MaxLines lines taken from SampleLines, and the scripts of spec.md section 8
ScriptTokens == {NL, "#", " ", "%%", MarkdownTag, "x"}
SampleLines ==
    {MarkerToken, marker_line("Markdown"), <<" ", "#", " ", "%%", " ">>,
     <<"x">>, <<"#", " ", "x">>, <<>>}
ExampleScript ==
    <<"#", " ", "%%", NL, "code1", NL,
      "#", " ", "%%", " ", MarkdownTag, NL, "note", NL,
      "#", " ", "%%", NL, "code2">>
MarkerlessScript == <<"x", NL, "y">>
Scripts ==
    UNION {[1..n -> ScriptTokens] : n \in 0..MaxTokens}
        \cup {join_lines(ls) : ls \in UNION {[1..n -> SampleLines] : n \in 1..MaxLines}}
        \cup {ExampleScript, MarkerlessScript}

\* documents: at most MaxCells cells, the content of a cell any text
Contents ==
    {<<"hello">>, <<"x", NL, "y">>, <<"%%", " ", "x">>, <<>>, MarkerToken,
     <<"a", NL>> \o marker_line("Markdown") \o <<NL, "b">>}
Documents ==
    UNION {[1..n -> [kind : {"Code", "Markdown"}, content : Contents]] : n \in 0..MaxCells}

NoWork == [phase |-> "idle", text |-> <<>>, doc |-> <<>>, before |-> <<>>, rounds |-> 0]

gateway == <<pc, TITO_PATH, resolveCalls, probe, environ, req, call, child, proc,
             spawns, outcome, resp, log, threads, served>>

\* the caller hands the transcoder a script
load_script(text) ==
    /\ transcoder.phase = "idle"
    /\ transcoder' = [NoWork EXCEPT !.phase = "script_loaded", !.text = text]
    /\ UNCHANGED gateway

\* the caller hands the transcoder a document
load_document(doc) ==
    /\ transcoder.phase = "idle"
    /\ transcoder' = [NoWork EXCEPT !.phase = "document_loaded", !.doc = doc]
    /\ UNCHANGED gateway

\* script -> notebook
parse_script ==
    /\ transcoder.phase \in {"script_loaded", "script_rendered"}
    /\ transcoder' = [transcoder EXCEPT
          !.phase = "document_parsed",
          !.doc = parseScript(transcoder.text),
          !.rounds = IF transcoder.phase = "script_rendered" THEN @ + 1 ELSE @]
    /\ UNCHANGED gateway

\* notebook -> script; before keeps the document that is rendered
render_document ==
    /\ transcoder.phase \in {"document_loaded", "document_parsed"}
    /\ transcoder.rounds < MaxRounds
    /\ transcoder' = [transcoder EXCEPT
          !.phase = "script_rendered",
          !.text = renderScript(transcoder.doc),
          !.before = transcoder.doc]
    /\ UNCHANGED gateway

------------------------------------------------------------------------------
(* The handlers that call execute_tito_command, src/app.py:593-672 *)

\* execute_tito_command(args) from its call to its return or raise, for the
\* disk fs it finds and the behaviour p of the tito process it starts
execute_tito_command(args, fs, p) ==
    [args |-> args,
     outcome |->
        IF tito_missing(TITO_PATH) THEN NotResolvedError
        ELSE IF \E i \in 1..Len(args) : ~is_str(args[i]) THEN TypeErrorRaised
        ELSE IF fs.exe = "missing" THEN FileNotFoundHandler
        ELSE IF fs.exe = "noexec" THEN PermissionErrorRaised
        ELSE IF p.dur > Timeout THEN TimeoutExpiredHandler(p)
        ELSE IF p.returncode = 0 THEN success_value(p)
        ELSE CalledProcessErrorHandler(p)]

\* what a handler decides before its try block ends: a call of
\* execute_tito_command with args, or a 400 with message
CallTito(args) == [call |-> TRUE, args |-> args, message |-> <<>>]
Reject(message) == [call |-> FALSE, args |-> <<>>, message |-> message]

\* query parameters or JSON body of a request; a key that is absent is None
\* a notebook file: its text is a JSON object with a 'cells' list, a JSON
\* object without one, or no JSON at all
NotJson == [kind |-> "not_json", cells |-> <<>>]
NoCells == [kind |-> "no_cells", cells |-> <<>>]
Notebook(cells) == [kind |-> "notebook", cells |-> cells]

\* the 'file' part of a multipart request
NoFile == [present |-> FALSE, filename |-> <<>>, content |-> NotJson]

NoQuery ==
    [operation |-> None, module |-> None, assignment |-> None, body |-> NoReq,
     file |-> NoFile]

\* what run_tito_complete returned, and which of its steps were reached
NoTriple ==
    [called |-> FALSE, success |-> FALSE, output |-> <<>>, processed_path |-> None,
     copy |-> "not_reached", create |-> "not_reached"]

\* the tito fields of the health response
NoHealth ==
    [tito_path |-> None, tito_found |-> FALSE, tito_executable |-> FALSE,
     tito_version |-> None, tito_error |-> None]

\* logs: the completion_log and validation_log of a validation response;
\* uploads, workspace, processed: the files the request wrote to the upload
\* folder, the tinytorch workspace and the processed folder; health: the tito
\* fields of a health response; spawned: the command lines of the processes
\* the handler started itself
NoServed ==
    [endpoint |-> "none", query |-> NoQuery, calls |-> <<>>, resp |-> NoResp,
     logs |-> <<>>, triple |-> NoTriple,
     uploads |-> <<>>, workspace |-> <<>>, processed |-> <<>>,
     health |-> NoHealth, spawned |-> <<>>]

\* Python truth of a parameter: None and '' are false
falsy(v) == v = None \/ v = <<>>

\* operation = data.get('operation', 'list')
operation_of(data) == IF data.operation = None THEN <<"list">> ELSE data.operation

\* the if/elif chain of module_operations, src/app.py:606-626
module_plan_unchecked(operation, module_name) ==
    IF operation = <<"list">> THEN CallTito(<< <<"module">>, <<"list">> >>)
    ELSE IF operation = <<"info">>
         THEN CallTito(<< <<"module">>, <<"info">>, module_name >>)
    ELSE IF operation = <<"export">>
         THEN CallTito(<< <<"src">>, <<"export">>, module_name >>)
    ELSE Reject(<<"Unknown operation: ">> \o operation)
module_plan(operation, module_name) ==
    IF operation = <<"list">> THEN CallTito(<< <<"module">>, <<"list">> >>)
    ELSE IF operation = <<"info">>
         THEN IF falsy(module_name)
              THEN Reject(<<"Module name required for info operation">>)
              ELSE CallTito(<< <<"module">>, <<"info">>, module_name >>)
    ELSE IF operation = <<"export">>
         THEN IF falsy(module_name)
              THEN Reject(<<"Module name required for export operation">>)
              ELSE CallTito(<< <<"src">>, <<"export">>, module_name >>)
    ELSE Reject(<<"Unknown operation: ">> \o operation)

\* a handler that makes at most one call and answers 200, 400 or 500
one_call_handler(endpoint, data, plan, fs, p) ==
    /\ pc = "serving"
    /\ served = NoServed
    /\ FsFits(TITO_PATH, fs)
    /\ served' =
          IF plan.call
          THEN [NoServed EXCEPT
                    !.endpoint = endpoint, !.query = data,
                    !.calls = <<execute_tito_command(plan.args, fs, p)>>,
                    !.resp = handler_response(execute_tito_command(plan.args, fs, p).outcome)]
          ELSE [NoServed EXCEPT
                    !.endpoint = endpoint, !.query = data,
                    !.resp = bad_request(plan.message)]
    /\ UNCHANGED <<pc, TITO_PATH, resolveCalls, probe, environ, req, call, child, proc,
                   spawns, outcome, resp, log, threads, transcoder>>

\* GET or POST /api/v1/module
ModuleQueries ==
    {[NoQuery EXCEPT !.operation = o, !.module = m] :
        o \in {None, <<"list">>, <<"info">>, <<"export">>, <<"delete">>},
        m \in {None, <<>>, <<"01">>, JsonNumber}}

module_operations(data, fs, p) ==
    one_call_handler("module", data, module_plan(operation_of(data), data.module), fs, p)

\* POST /api/v1/grade, src/app.py:644-672
GradeQueries ==
    {[NoQuery EXCEPT !.assignment = a] : a \in {None, <<>>, <<"hw1">>, JsonNumber}}

grade_plan(data) ==
    IF data.assignment = None
    THEN Reject(<<"Missing 'assignment' parameter">>)
    ELSE CallTito(<< <<"grade">>, <<"autograde">>, data.assignment >>)

grade_assignment(data, fs, p) == one_call_handler("grade", data, grade_plan(data), fs, p)

\* POST /api/v1/tito/command from the request to the response,
\* src/app.py:675-714
CommandQueries == {[NoQuery EXCEPT !.body = b] : b \in Bodies}

command_plan(data) ==
    IF ~data.body.json \/ data.body.args.tag = "absent"
    THEN Reject(<<"Missing 'args' parameter. Send JSON with 'args' array.">>)
    ELSE IF data.body.args.tag # "list"
    THEN Reject(<<"'args' must be an array of strings">>)
    ELSE CallTito(data.body.args.items)

tito_command(data, fs, p) == one_call_handler("command", data, command_plan(data), fs, p)

\* execute_tito_command of src/old/app06.py:24-55: 'tito' is looked up on the
\* PATH at every call; onpath is what the lookup finds
execute_tito_command_app06(args, onpath, p) ==
    [args |-> args,
     outcome |->
        IF \E i \in 1..Len(args) : ~is_str(args[i]) THEN TypeErrorRaised
        ELSE IF onpath = "missing" THEN FileNotFoundHandler
        ELSE IF onpath = "noexec" THEN PermissionErrorRaised
        ELSE IF p.dur > Timeout THEN TimeoutExpiredHandler(p)
        ELSE IF p.returncode = 0 THEN success_value(p)
        ELSE CalledProcessErrorHandler(p)]

\* GET or POST /api/v1/validate, src/old/app06.py:474-519
ValidateQueries ==
    {[NoQuery EXCEPT !.module = m] : m \in {None, <<>>, <<"01">>, JsonNumber}}

\* the second command is reached only when the first call returned
validation_calls(module_id, onpath, p1, p2) ==
    LET completion ==
            execute_tito_command_app06(<< <<"module">>, <<"complete">>, module_id >>, onpath, p1)
    IN  IF completion.outcome.kind = "return"
        THEN <<completion,
               execute_tito_command_app06(
                   << <<"grade">>, <<"autograde">>, module_id \o <<"_tensor">> >>, onpath, p2)>>
        ELSE <<completion>>

run_assignment_validation(data, onpath, p1, p2) ==
    /\ pc = "serving"
    /\ served = NoServed
    /\ served' =
          IF falsy(data.module)
          THEN [NoServed EXCEPT
                    !.endpoint = "validate", !.query = data,
                    !.resp = bad_request(<<"Missing 'module' parameter in JSON body or URL.">>)]
          ELSE LET calls == validation_calls(data.module, onpath, p1, p2)
                   last == calls[Len(calls)].outcome
               IN  IF last.kind = "return"
                   THEN [NoServed EXCEPT
                            !.endpoint = "validate", !.query = data, !.calls = calls,
                            !.resp = [code |-> 200, status |-> "validation_complete",
                                      text |-> <<>>],
                            !.logs = <<split(calls[1].outcome.value),
                                       split(calls[2].outcome.value)>>]
                   ELSE [NoServed EXCEPT
                            !.endpoint = "validate", !.query = data, !.calls = calls,
                            !.resp = handler_response(last)]
    /\ UNCHANGED <<pc, TITO_PATH, resolveCalls, probe, environ, req, call, child, proc,
                   spawns, outcome, resp, log, threads, transcoder>>

------------------------------------------------------------------------------
(* Notebook processing, src/app.py:129-213 and 719-771 *)

MaxNbCells == 2

\* file names are sequences of these tokens; two digit tokens are never
\* adjacent in the names the model uses
DigitTokens == {"01", "7"}

\* filename.rsplit('.', 1): the position of the last dot, 0 if there is none
LastDot(f) ==
    IF \E i \in 1..Len(f) : f[i] = "."
    THEN CHOOSE i \in 1..Len(f) : f[i] = "." /\ \A j \in (i + 1)..Len(f) : f[j] # "."
    ELSE 0

lower(f) == [i \in 1..Len(f) |-> IF f[i] = "IPYNB" THEN "ipynb" ELSE f[i]]

ALLOWED_EXTENSIONS == {<<"ipynb">>}

\* src/app.py:130-131
allowed_file_any(filename) == TRUE
allowed_file(filename) ==
    /\ LastDot(filename) > 0
    /\ lower(SubSeq(filename, LastDot(filename) + 1, Len(filename))) \in ALLOWED_EXTENSIONS

\* re.search(r'\d{2}', token): the first two digits in a row, if any
TwoDigits(token) ==
    IF token = "01" THEN <<"01">>
    ELSE IF token = "lesson12" THEN <<"12">>
    ELSE None

\* src/app.py:133-143
extract_module_number(filename) ==
    LET base == IF LastDot(filename) > 0
                THEN SubSeq(filename, 1, LastDot(filename) - 1)
                ELSE filename
        first == IF \E i \in 1..Len(base) : base[i] = "_"
                 THEN SubSeq(base, 1,
                        (CHOOSE i \in 1..Len(base) :
                            base[i] = "_" /\ \A j \in 1..(i - 1) : base[j] # "_") - 1)
                 ELSE <<>>
        hits == {i \in 1..Len(filename) : TwoDigits(filename[i]) # None}
    IN  IF first # <<>> /\ \A i \in 1..Len(first) : first[i] \in DigitTokens
        THEN first
        ELSE IF hits # {}
             THEN TwoDigits(filename[CHOOSE i \in hits : \A j \in hits : i <= j])
             ELSE None

\* werkzeug's secure_filename: path separators become whitespace, the pieces
\* between whitespace are joined by '_', dots and underscores at the two ends
\* are stripped
RECURSIVE underscore_join(_, _)
underscore_join(f, pending) ==
    IF f = <<>> THEN <<>>
    ELSE IF Head(f) \in {"/", " "} THEN underscore_join(Tail(f), TRUE)
    ELSE (IF pending THEN <<"_">> ELSE <<>>) \o <<Head(f)>> \o underscore_join(Tail(f), FALSE)

RECURSIVE strip_dots(_)
strip_dots(f) ==
    IF f # <<>> /\ Head(f) \in {".", "_"} THEN strip_dots(Tail(f))
    ELSE IF f # <<>> /\ f[Len(f)] \in {".", "_"} THEN strip_dots(SubSeq(f, 1, Len(f) - 1))
    ELSE f

secure_filename(f) ==
    strip_dots(IF f # <<>> /\ Head(f) \in {"/", " "}
               THEN Tail(underscore_join(f, FALSE))
               ELSE underscore_join(f, FALSE))

\* datetime.now().strftime('%Y%m%d_%H%M%S')
Timestamp == <<"TS">>

File(name, content) == [name |-> name, content |-> content]

\* the results cell of src/app.py:192-203; (fence) stands for the three
\* backquotes of a Markdown code fence
results_cell(success, output, module_number) ==
    [cell_type |-> "markdown",
     source |-> << <<"# TinyTorch Module Processing Results", NL, NL>>,
                   <<"**Module:** ">> \o module_number \o <<NL, NL>>,
                   <<"**Status:** ", IF success THEN "SUCCESS" ELSE "FAILED", NL, NL>>,
                   <<"**Timestamp:** ">> \o Timestamp \o <<NL, NL>>,
                   <<"## Processing Output", NL, NL>>,
                   <<"(fence)", NL>> \o output \o <<NL, "(fence)", NL>> >>]

\* original_nb['cells'].insert(0, results_cell)
insert_results_last(cells, cell) == Append(cells, cell)
insert_results(cells, cell) == <<cell>> \o cells

\* create_results_notebook, src/app.py:181-213: the file it writes, or that
\* it raised (the upload is no JSON, has no 'cells', or the write fails)
create_results_notebook(original, success, output, module_number, write_ok) ==
    IF original.content.kind # "notebook" \/ ~write_ok
    THEN [raised |-> TRUE, file |-> File(<<>>, NotJson)]
    ELSE [raised |-> FALSE,
          file |-> File(SubSeq(original.name, 1, LastDot(original.name) - 1)
                            \o <<"_results_">> \o Timestamp \o <<".", "ipynb">>,
                        Notebook(insert_results(original.content.cells,
                                    results_cell(success, output, module_number))))]

\* run_tito_complete, src/app.py:145-179: the triple it returns, the call it
\* made and the files it wrote
run_tito_complete(notebook, module_number, copy_ok, write_ok, fs, p) ==
    LET c == execute_tito_command(<< <<"module">>, <<"complete">>, module_number >>, fs, p)
        ran == c.outcome.kind = "return" \/ c.outcome.type = "RuntimeError"
        made == create_results_notebook(notebook, c.outcome.kind = "return",
                                        c.outcome.value, module_number, write_ok)
    IN  IF ~copy_ok
        THEN [triple |-> [NoTriple EXCEPT !.called = TRUE, !.copy = "raised",
                              !.output = <<"Error: ", "copy failed">>],
              calls |-> <<>>, workspace |-> <<>>, processed |-> <<>>]
        ELSE IF ~ran
        THEN [triple |-> [NoTriple EXCEPT !.called = TRUE, !.copy = "ok",
                              !.output = <<"Error: ">> \o c.outcome.value],
              calls |-> <<c>>, workspace |-> <<notebook>>, processed |-> <<>>]
        ELSE IF made.raised
        THEN [triple |-> [NoTriple EXCEPT !.called = TRUE, !.copy = "ok", !.create = "raised",
                              !.output = <<"Error: ", "results notebook failed">>],
              calls |-> <<c>>, workspace |-> <<notebook>>, processed |-> <<>>]
        ELSE [triple |-> [NoTriple EXCEPT !.called = TRUE, !.copy = "ok", !.create = "ok",
                              !.success = c.outcome.kind = "return",
                              !.output = c.outcome.value,
                              !.processed_path = made.file.name],
              calls |-> <<c>>, workspace |-> <<notebook>>, processed |-> <<made.file>>]

\* the uploads a client sends
Filenames ==
    {<<>>,
     <<"notes", ".", "txt">>,
     <<"01", "_", "tensor", ".", "ipynb">>,
     <<"tensor", ".", "ipynb">>,
     <<"lesson12", ".", "IPYNB">>,
     <<"7", "_", "x", ".", "ipynb">>,
     <<"my", " ", "01", ".", "ipynb">>,
     <<".", ".", "/", "01", "_", "tensor", ".", "ipynb">>}
NotebookCells ==
    {[cell_type |-> "code", source |-> << <<"x = 1">> >>],
     [cell_type |-> "markdown", source |-> << <<"# title">> >>]}
Notebooks ==
    {NotJson, NoCells}
        \cup {Notebook(c) : c \in UNION {[1..n -> NotebookCells] : n \in 0..MaxNbCells}}
Uploads ==
    {[NoQuery EXCEPT !.file = NoFile]}
        \cup {[NoQuery EXCEPT !.file = [present |-> TRUE, filename |-> f, content |-> nb]] :
                f \in Filenames, nb \in Notebooks}

\* the body of a notebook response: status holds the value of its 'success'
\* key, text its 'message'
notebook_response(code, success, message) ==
    [code |-> code, status |-> IF success THEN "True" ELSE "False", text |-> message]

\* POST /api/v1/notebook/process, src/app.py:719-771
process_notebook(data, copy_ok, write_ok, fs, p) ==
    /\ pc = "serving"
    /\ served = NoServed
    /\ FsFits(TITO_PATH, fs)
    /\ LET file == data.file
           filename == secure_filename(file.filename)
           upload == File(Timestamp \o <<"_">> \o filename, file.content)
           module_number == extract_module_number(filename)
           asked == [NoServed EXCEPT !.endpoint = "notebook", !.query = data]
       IN  served' =
             IF ~file.present
             THEN [asked EXCEPT !.resp = notebook_response(400, FALSE, <<"No file provided">>)]
             ELSE IF file.filename = <<>>
             THEN [asked EXCEPT !.resp = notebook_response(400, FALSE, <<"No file selected">>)]
             ELSE IF ~allowed_file(file.filename)
             THEN [asked EXCEPT !.resp = notebook_response(400, FALSE,
                                    <<"Invalid file type. Only .ipynb allowed">>)]
             ELSE IF falsy(module_number)
             THEN [asked EXCEPT
                      !.uploads = <<upload>>,
                      !.resp = notebook_response(400, FALSE,
                          <<"Could not determine module number. Use format like 01_tensor.ipynb">>)]
             ELSE LET r == run_tito_complete(upload, module_number, copy_ok, write_ok, fs, p)
                  IN  [asked EXCEPT
                          !.uploads = <<upload>>,
                          !.triple = r.triple,
                          !.calls = r.calls,
                          !.workspace = r.workspace,
                          !.processed = r.processed,
                          !.resp = IF r.triple.processed_path # None
                                   THEN notebook_response(200, r.triple.success,
                                            IF r.triple.success
                                            THEN <<"Notebook processed">>
                                            ELSE <<"Processing completed with errors">>)
                                   ELSE notebook_response(500, FALSE, <<"Processing failed">>)]
    /\ UNCHANGED <<pc, TITO_PATH, resolveCalls, probe, environ, req, call, child, proc,
                   spawns, outcome, resp, log, threads, transcoder>>

------------------------------------------------------------------------------
(* health_check, src/app.py:550-590 *)

\* timeout=5 of the version probe
VersionTimeout == 5

\* tito_available = TITO_PATH is not None
tito_available_always(path) == TRUE
tito_available(path) == path # None

\* subprocess.run([TITO_PATH, '--version'], ...) without check=True, and the
\* except Exception around it: the version and the error it leaves, and
\* whether a process was started
version_probe(path, fs, p) ==
    IF fs.exe = "missing"
    THEN [version |-> None, started |-> FALSE,
          error |-> <<"[Errno 2] No such file or directory: ">> \o path]
    ELSE IF fs.exe = "noexec"
    THEN [version |-> None, started |-> FALSE,
          error |-> <<"[Errno 13] Permission denied: ">> \o path]
    ELSE IF p.dur > VersionTimeout
    THEN [version |-> None, started |-> TRUE,
          error |-> <<"Command ">> \o path \o <<" --version">>
                        \o <<" timed out after ", ToString(VersionTimeout), " seconds">>]
    ELSE IF p.returncode = 0
    THEN [version |-> strip(p.stdout), started |-> TRUE, error |-> None]
    ELSE [version |-> None, started |-> TRUE, error |-> strip(p.stderr)]

\* GET /api/v1/health
health_check(fs, p) ==
    /\ pc = "serving"
    /\ served = NoServed
    /\ FsFits(TITO_PATH, fs)
    /\ LET asked == [NoServed EXCEPT !.endpoint = "health",
                                     !.resp = [code |-> 200, status |-> "healthy",
                                               text |-> <<"TinyTorch API">>]]
           probed == version_probe(TITO_PATH, fs, p)
       IN  served' =
             IF tito_available(TITO_PATH)
             THEN [asked EXCEPT
                      !.health = [tito_path |-> TITO_PATH,
                                  tito_found |-> TRUE,
                                  tito_executable |-> os_access_X_OK(fs.exe),
                                  tito_version |-> probed.version,
                                  tito_error |-> probed.error],
                      !.spawned = IF probed.started
                                  THEN << <<TITO_PATH, <<"--version">> >> >>
                                  ELSE <<>>]
             ELSE [asked EXCEPT !.health = [NoHealth EXCEPT !.tito_path = TITO_PATH]]
    /\ UNCHANGED <<pc, TITO_PATH, resolveCalls, probe, environ, req, call, child, proc,
                   spawns, outcome, resp, log, threads, transcoder>>

\* the response is sent and the worker takes the next request
handler_done ==
    /\ served # NoServed
    /\ served' = NoServed
    /\ UNCHANGED <<pc, TITO_PATH, resolveCalls, probe, environ, req, call, child, proc,
                   spawns, outcome, resp, log, threads, transcoder>>

------------------------------------------------------------------------------
(* Initial state: the interpreter starts importing the module *)

\* os.environ as the service inherits it: PYTHONPATH unset, empty or set, and
\* PYTHON unset or set
Environs ==
    {[PYTHONPATH |-> None, PYTHON |-> None],
     [PYTHONPATH |-> <<>>, PYTHON |-> None],
     [PYTHONPATH |-> <<"/opt/lib">>, PYTHON |-> None],
     [PYTHONPATH |-> <<"/opt/lib">>, PYTHON |-> <<"/usr/bin/python3">>]}

Init ==
    /\ pc = "import"
    /\ TITO_PATH = None
    /\ resolveCalls = 0
    /\ probe = NoProbe
    /\ environ \in Environs
    /\ req = NoReq
    /\ call = NoCall
    /\ child = "none"
    /\ proc = NoProc
    /\ spawns = 0
    /\ outcome = NoOutcome
    /\ resp = NoResp
    /\ log = <<>>
    /\ threads = [t \in Threads |-> IdleThread]
    /\ transcoder = NoWork
    /\ served = NoServed

\* TITO_PATH = find_tito_executable(), src/app.py:61
Startup(e) ==
    /\ pc = "import"
    /\ LET found == find_tito_executable(e.which, e.files)
       IN  /\ TITO_PATH' = found.path
           /\ probe' = [which |-> e.which, files |-> e.files, checked |-> found.checked]
    /\ resolveCalls' = resolveCalls + 1
    /\ pc' = "resolved"
    /\ UNCHANGED <<environ, req, call, child, proc, spawns, outcome, resp, log, threads, transcoder, served>>

\* app.run(): the import is over, requests are served
Serve ==
    /\ pc = "resolved"
    /\ pc' = "serving"
    /\ probe' = NoProbe
    /\ UNCHANGED <<TITO_PATH, resolveCalls, environ, req, call, child, proc,
                   spawns, outcome, resp, log, threads, transcoder, served>>

Next ==
    \/ \E e \in StartEnvs : Startup(e)
    \/ Serve
    \/ \E data \in Bodies, fs \in CallFs : execute_custom_tito_command(data, fs)
    \/ \E p \in Exits : tito_exits(p)
    \/ \E p \in Overruns : tito_times_out(p)
    \/ request_done

Spec == Init /\ [][Next]_vars

\* the service with two request threads inside execute_tito_command
NextThreads ==
    \/ \E e \in StartEnvs : Startup(e)
    \/ Serve
    \/ \E t \in Threads, args \in ArgLists : thread_enters(t, args)
    \/ \E t \in Threads, fs \in ThreadFs : thread_prepares(t, fs)
    \/ \E t \in Threads : thread_spawns(t)
    \/ \E t \in Threads, p \in ThreadProcs : thread_child_ends(t, p)
    \/ \E t \in Threads : thread_leaves(t)

SpecThreads == Init /\ [][NextThreads]_vars

\* the transcoder at work on the scripts and documents of a caller
NextTranscoder ==
    \/ \E text \in Scripts : load_script(text)
    \/ \E doc \in Documents : load_document(doc)
    \/ parse_script
    \/ render_document

SpecTranscoder == Init /\ [][NextTranscoder]_vars

\* the service answering the requests of its other handlers
NextHandlers ==
    \/ \E e \in StartEnvs : Startup(e)
    \/ Serve
    \/ \E data \in ModuleQueries, fs \in ThreadFs, p \in ThreadProcs :
            module_operations(data, fs, p)
    \/ \E data \in GradeQueries, fs \in ThreadFs, p \in ThreadProcs :
            grade_assignment(data, fs, p)
    \/ \E data \in CommandQueries, fs \in ThreadFs, p \in ThreadProcs :
            tito_command(data, fs, p)
    \/ \E data \in ValidateQueries, onpath \in FileStates, p1 \in ThreadProcs, p2 \in ThreadProcs :
            run_assignment_validation(data, onpath, p1, p2)
    \/ \E data \in Uploads, copy_ok \in BOOLEAN, write_ok \in BOOLEAN,
            fs \in ThreadFs, p \in ThreadProcs :
            process_notebook(data, copy_ok, write_ok, fs, p)
    \/ \E fs \in ThreadFs, p \in ThreadProcs : health_check(fs, p)
    \/ handler_done

SpecHandlers == Init /\ [][NextHandlers]_vars

------------------------------------------------------------------------------
(* Properties *)

\* v is s without the whitespace at its two ends
IsTrimOf(v, s) ==
    \E i, j \in 0..Len(s) :
        /\ i + Len(v) + j = Len(s)
        /\ \A k \in 1..Len(v) : v[k] = s[i + k]
        /\ \A k \in 1..i : s[k] \in Whitespace
        /\ \A k \in (Len(s) - j + 1)..Len(s) : s[k] \in Whitespace
        /\ v # <<>> => (v[1] \notin Whitespace /\ v[Len(v)] \notin Whitespace)

Tokens(s) == {s[k] : k \in 1..Len(s)}

\* execute_tito_command was called for the request in hand and has ended
Executed == req.args.tag = "list" /\ resp # NoResp

\* C1: when the resolver found nothing (TITO_PATH is None), every call of
\* execute_tito_command fails with the executable-not-found failure and
\* subprocess.run is not invoked during the call.
C1_NotFoundSpawnsNothing ==
    (TITO_PATH = None /\ Executed) =>
        /\ outcome = Raise("not_resolved", "RuntimeError",
                           <<"tito executable not found. Check installation.">>)
        /\ spawns = 0
        /\ child = "none"
        /\ proc = NoProc

C1_Witness ==
    /\ TITO_PATH = None
    /\ Executed
    /\ outcome.branch = "not_resolved"
    /\ spawns = 0

\* the failure kind of the taxonomy that each raise site stands for
FailureKind(branch) ==
    CASE branch \in {"not_resolved", "file_not_found"} -> "ExecutableNotFound"
      [] branch = "called_process_error" -> "NonZeroExit"
      [] branch = "timeout_expired" -> "Timeout"
      [] OTHER -> "none"

\* every failure execute_tito_command can raise on purpose
RaiseSites ==
    {NotResolvedError, FileNotFoundHandler}
        \cup {CalledProcessErrorHandler([NoProc EXCEPT !.returncode = 1, !.stderr = e]) :
                e \in ErrTexts}
        \cup {TimeoutExpiredHandler(NoProc)}

\* C2 as stated: the three failure kinds reach the handler as distinguishable
\* types; a failure of one kind never has the type that a failure of another
\* kind is raised with.
C2_KindsDistinctByType ==
    FailureKind(outcome.branch) # "none" =>
        \A o \in RaiseSites :
            FailureKind(o.branch) # FailureKind(outcome.branch) => o.type # outcome.type

\* the fixed text each raise site puts at the head of its message
MessageHead(branch) ==
    CASE branch = "not_resolved" -> "tito executable not found. Check installation."
      [] branch = "file_not_found" ->
            "The 'tito' command was not found. Check Dockerfile and PATH."
      [] branch = "called_process_error" -> "tito command failed. STDERR: "
      [] branch = "timeout_expired" -> "tito command timed out after 60 seconds"
      [] OTHER -> ""

\* C2 amended: every failure kind reaches the handler as the one type
\* RuntimeError and is answered 500 with the failure's message; the kinds
\* differ only in the text of the message, whose fixed head is the kind's own.
C2_KindsShareRuntimeError ==
    FailureKind(outcome.branch) # "none" =>
        /\ outcome.kind = "raise"
        /\ outcome.type = "RuntimeError"
        /\ Head(outcome.value) = MessageHead(outcome.branch)
        /\ \A o \in RaiseSites :
              FailureKind(o.branch) # FailureKind(outcome.branch) =>
                  Head(o.value) # Head(outcome.value)
        /\ resp = [code |-> 500, status |-> "error", text |-> outcome.value]

C2_Witness ==
    /\ outcome.branch = "timeout_expired"
    /\ outcome.type = "RuntimeError"
    /\ resp.code = 500

\* C3 as stated: the failure raised for a nonzero exit carries the exit code,
\* so the caller can recover the code from it: no other nonzero exit code of
\* the same run would have given the same failure.
C3_ExitCodeRecoverable ==
    outcome.branch = "called_process_error" =>
        \A c \in 1..MaxCode :
            c # proc.returncode =>
                CalledProcessErrorHandler([proc EXCEPT !.returncode = c]) # outcome

\* C3 amended: a spawned command that exits with a nonzero code and stderr s
\* makes execute_tito_command raise a RuntimeError whose message is the fixed
\* text "tito command failed. STDERR: " followed by s without the whitespace
\* at its two ends; the exit code and stdout are not part of the failure.
C3_FailureCarriesTrimmedStderr ==
    outcome.branch = "called_process_error" =>
        /\ proc.returncode # 0
        /\ child = "exited"
        /\ outcome.kind = "raise"
        /\ outcome.type = "RuntimeError"
        /\ Head(outcome.value) = "tito command failed. STDERR: "
        /\ IsTrimOf(Tail(outcome.value), proc.stderr)
        /\ resp.text = outcome.value

C3_Witness ==
    /\ outcome.branch = "called_process_error"
    /\ proc.returncode = 2
    /\ proc.stdout # <<>>
    /\ Len(proc.stderr) = 2
    /\ Head(proc.stderr) \in Whitespace
    /\ outcome.value = <<"tito command failed. STDERR: ", "err">>

\* C4 as stated: for every timeout value t the caller supplies, a command that
\* runs longer than t ends in the Timeout failure with the child terminated.
C4_CallerTimeoutEnforced ==
    (Executed /\ req.timeout # 0 /\ proc.dur > req.timeout) =>
        (outcome.branch = "timeout_expired" /\ child = "killed")

\* C4 amended: the timeout is the fixed 60 seconds, whatever the caller asks
\* for: exactly the commands that run longer than 60 seconds end in the Timeout
\* failure; when it is raised the child has been killed, and nothing the child
\* wrote is part of the failure or of the response.
C4_FixedTimeoutEnforced ==
    Executed =>
        /\ proc.dur > 60 =>
              /\ outcome = Raise("timeout_expired", "RuntimeError",
                                 <<"tito command timed out after 60 seconds">>)
              /\ child = "killed"
              /\ Tokens(outcome.value) \cap {"out", "err"} = {}
              /\ Tokens(resp.text) \cap {"out", "err"} = {}
        /\ outcome.branch = "timeout_expired" => proc.dur > 60

C4_Witness ==
    /\ Executed
    /\ proc.dur > 60
    /\ "out" \in Tokens(proc.stdout)
    /\ "err" \in Tokens(proc.stderr)
    /\ outcome.branch = "timeout_expired"
    /\ child = "killed"

\* C5 as stated: success carries stdout with only its trailing whitespace
\* removed; leading whitespace is kept.
C5_TrailingWhitespaceOnly ==
    outcome.kind = "return" => outcome.value = rstrip(proc.stdout)

\* C5 amended: a spawned command that exits with code zero and stdout o makes
\* execute_tito_command return o without the whitespace at both of its ends
\* (leading whitespace is removed too); stderr is not part of the value.
C5_SuccessCarriesTrimmedStdout ==
    outcome.kind = "return" =>
        /\ proc.returncode = 0
        /\ child = "exited"
        /\ IsTrimOf(outcome.value, proc.stdout)
        /\ "err" \notin Tokens(outcome.value)
        /\ resp = [code |-> 200, status |-> "success", text |-> outcome.value]

C5_Witness ==
    /\ outcome.kind = "return"
    /\ Len(proc.stdout) = 2
    /\ Head(proc.stdout) \in Whitespace
    /\ outcome.value = <<"out">>
    /\ "err" \in Tokens(proc.stderr)

\* C6: if `which tito` reports a path, find_tito_executable returns that path
\* and evaluates none of the fixed candidate locations, whatever is on disk.
C6_WhichWins ==
    (pc = "resolved" /\ probe.which.returncode = 0) =>
        /\ TITO_PATH = <<probe.which.stdout[1]>>
        /\ probe.checked = {}

C6_Witness ==
    /\ pc = "resolved"
    /\ probe.which.returncode = 0
    /\ probe.files[1] = "exec"
    /\ TITO_PATH = <<"/usr/bin/tito">>

\* C7: when `which tito` reports nothing, find_tito_executable returns the
\* first candidate, in list order, that exists and is executable; a candidate
\* that exists without being executable is skipped; it returns None exactly
\* when no candidate is both.
C7_FirstExecutableCandidate ==
    (pc = "resolved" /\ probe.which.returncode # 0) =>
        /\ \A i \in Locations :
              (probe.files[i] = "exec" /\ \A j \in 1..(i - 1) : probe.files[j] # "exec")
                  => TITO_PATH = possible_locations[i]
        /\ TITO_PATH = None <=> \A i \in Locations : probe.files[i] # "exec"

C7_Witness ==
    /\ pc = "resolved"
    /\ probe.which.returncode # 0
    /\ probe.files[1] = "noexec"
    /\ probe.files[2] = "missing"
    /\ probe.files[3] = "exec"
    /\ probe.files[5] = "exec"
    /\ TITO_PATH = possible_locations[3]

\* C8: resolution runs exactly once, before any request is served; afterwards
\* no request writes TITO_PATH or calls find_tito_executable again, and every
\* spawned command is the startup value followed by the arguments.
C8_ResolvedOnce ==
    [][/\ pc = "serving" => (TITO_PATH' = TITO_PATH /\ resolveCalls' = resolveCalls)
       /\ pc' = "serving" => resolveCalls' = 1
       /\ child' = "running" => Head(call'.command) = TITO_PATH]_vars

C8_Witness ==
    /\ pc = "serving"
    /\ resolveCalls = 1
    /\ TITO_PATH # None
    /\ outcome.kind = "return"

\* C9: when at least one of the candidate package directories exists, the
\* prepared environment has the first existing one prepended to PYTHONPATH
\* once, followed by ":" and the inherited value when that is non-empty; later
\* candidates are not added; when none exists PYTHONPATH is as inherited.
C9_FirstPackageDirPrepended ==
    child = "running" =>
        LET dirs == call.fs.dirs
            inherited == environ.PYTHONPATH
        IN  /\ (\A i \in DOMAIN dirs : ~dirs[i]) => call.env.PYTHONPATH = inherited
            /\ \A i \in DOMAIN dirs :
                  (dirs[i] /\ \A j \in 1..(i - 1) : ~dirs[j]) =>
                      call.env.PYTHONPATH =
                          IF inherited \in {None, <<>>}
                          THEN tinytorch_paths[i]
                          ELSE tinytorch_paths[i] \o <<":">> \o inherited

C9_Witness ==
    /\ child = "running"
    /\ call.fs.dirs = <<TRUE, TRUE>>
    /\ environ.PYTHONPATH = <<"/opt/lib">>
    /\ call.env.PYTHONPATH = <<"/app/TinyTorch", ":", "/opt/lib">>

\* C10 as stated: the process is spawned in the working directory the caller
\* gives, and without one in a default that is the same for every call.
C10_CallerWorkingDirectory ==
    child = "running" =>
        IF req.cwd # None
        THEN call.cwd = req.cwd
        ELSE \A exists \in BOOLEAN : call.cwd = spawn_cwd(exists)

\* C10 amended: execute_tito_command takes no working directory from its
\* caller; every call spawns the process in /app/TinyTorch when that directory
\* exists at the time of the call and in /app when it does not.
C10_WorkingDirectoryFromDisk ==
    child = "running" =>
        call.cwd = IF call.fs.dirs[1] THEN <<"/app/TinyTorch">> ELSE <<"/app">>

C10_Witness ==
    /\ child = "running"
    /\ req.cwd = <<"/tmp/work">>
    /\ ~call.fs.dirs[1]
    /\ call.cwd = <<"/app">>

\* C11: the spawned process gets as argv the resolved path followed by the
\* elements of args, same order and count, each an argument of its own; the
\* arguments are not joined into one string for a shell.
C11_ArgvIsPathThenArgs ==
    child = "running" =>
        /\ ~call.shell
        /\ Len(call.command) = 1 + Len(req.args.items)
        /\ call.command[1] = TITO_PATH
        /\ \A i \in 1..Len(req.args.items) : call.command[i + 1] = req.args.items[i]

C11_Witness ==
    /\ child = "running"
    /\ Len(req.args.items) = 3
    /\ " " \in Tokens(req.args.items[3])
    /\ call.command[4] = <<"01", " ", "tensor">>

\* C12: every call of execute_tito_command spawns at most one process and
\* ends in exactly one outcome: after a failure nothing is spawned again, and
\* an outcome, once there, stays as it is until the request is over.
C12_OneSpawnOneOutcome ==
    /\ [](spawns <= 1)
    /\ [](outcome.kind = "raise" => child # "running")
    /\ [](Executed <=> (req.args.tag = "list" /\ outcome # NoOutcome))
    /\ [][outcome # NoOutcome =>
            (spawns' <= spawns /\ (outcome' = outcome \/ (req' = NoReq /\ outcome' = NoOutcome)))]_vars

C12_Witness ==
    /\ outcome.branch = "timeout_expired"
    /\ spawns = 1
    /\ child = "killed"

\* C13: on every path through execute_tito_command, the one where the
\* executable was never resolved included, the logger gets a record of the
\* attempt and a record of the outcome before the function returns or raises.
C13_AttemptAndOutcomeLogged ==
    outcome # NoOutcome =>
        /\ Len(log) >= 2
        /\ log[1] = Info("Executing tito command: ")
        /\ log[Len(log)].level = (IF outcome.kind = "return" THEN "INFO" ELSE "ERROR")

\* C14: when the resolved path is gone or no longer executable at the time of
\* the spawn, the call fails with the classified ExecutableNotFound failure.
C14_SpawnFailureClassified ==
    (outcome # NoOutcome /\ spawns = 1 /\ child = "none") =>
        /\ FailureKind(outcome.branch) = "ExecutableNotFound"
        /\ outcome.type = "RuntimeError"

\* C15: the prepared environment has PYTHON set to /app/venv/bin/python when
\* that file exists at the time of the call, and the inherited value (or none)
\* when it does not; so, the inherited value being another one, PYTHON is that
\* path exactly when the file exists.
C15_PythonSetWhenInterpreterExists ==
    child = "running" =>
        /\ call.env.PYTHON =
              IF call.fs.python THEN <<"/app/venv/bin/python">> ELSE environ.PYTHON
        /\ environ.PYTHON # <<"/app/venv/bin/python">> =>
              (call.env.PYTHON = <<"/app/venv/bin/python">> <=> call.fs.python)

C15_Witness ==
    /\ child = "running"
    /\ ~call.fs.python
    /\ environ.PYTHON = <<"/usr/bin/python3">>
    /\ call.env.PYTHON = <<"/usr/bin/python3">>


\* what execute_tito_command(args) gives when it is the only call in the
\* process: the disk it sees is fs, its tito process behaves as p
AloneCall(args, fs) ==
    [command |-> build_command(TITO_PATH, args),
     env |-> prepare_env(environ, fs),
     cwd |-> spawn_cwd(fs.dirs[1])]
AloneOutcome(fs, p) ==
    IF tito_missing(TITO_PATH) THEN NotResolvedError
    ELSE IF fs.exe = "missing" THEN FileNotFoundHandler
    ELSE IF fs.exe = "noexec" THEN PermissionErrorRaised
    ELSE IF p.dur > Timeout THEN TimeoutExpiredHandler(p)
    ELSE IF p.returncode = 0 THEN success_value(p)
    ELSE CalledProcessErrorHandler(p)

\* C16: concurrent calls are independent: an idle thread can always enter
\* execute_tito_command whatever the other thread is doing (no lock, no queue),
\* and under every interleaving the argument vector, the environment, the
\* working directory and the outcome of each call are those the call gives
\* when it runs alone.
C16_ConcurrentCallsIndependent ==
    \A t \in Threads :
        LET th == threads[t]
        IN  /\ (pc = "serving" /\ th.state = "idle")
                => ENABLED (\E args \in ArgLists : thread_enters(t, args))
            /\ th.state \in {"prepared", "running"}
                => /\ th.command = AloneCall(th.args, th.fs).command
                   /\ th.env = AloneCall(th.args, th.fs).env
            /\ th.state = "running" => th.cwd = AloneCall(th.args, th.fs).cwd
            /\ th.state = "done" => th.outcome = AloneOutcome(th.fs, th.proc)

\* both calls have a tito process running at once, with different arguments and
\* different environments
C16_Witness ==
    /\ threads[1].state = "running"
    /\ threads[2].state = "running"
    /\ threads[1].command # threads[2].command
    /\ threads[1].env # threads[2].env
    /\ threads[1].env.PYTHONPATH = <<"/app/TinyTorch", ":", "/opt/lib">>


\* the document in hand is parseScript of the script in hand
Parsed == transcoder.phase = "document_parsed"

\* the lines of the script in hand, cut at its newlines
ScriptLines == script_lines(transcoder.text)

Tagged(line) == \E i \in 1..Len(line) : line[i] = MarkdownTag

\* the lines at which a cell starts: a non-marker line that is the first line
\* or follows a marker line; the cell runs to the line before the next marker
CellStarts(L) ==
    {a \in 1..Len(L) : ~is_marker(L[a]) /\ (a = 1 \/ is_marker(L[a - 1]))}
CellEnd(L, a) ==
    CHOOSE b \in a..Len(L) :
        /\ \A k \in a..b : ~is_marker(L[k])
        /\ b = Len(L) \/ is_marker(L[b + 1])
NthStart(L, n) ==
    CHOOSE a \in CellStarts(L) : Cardinality({c \in CellStarts(L) : c < a}) = n - 1

\* C17: parseScript is one scan in line order: the cells of the document are
\* the runs of non-marker lines between markers, in the order of their first
\* lines; the content of a cell is its lines, verbatim, joined by newline; its
\* kind is Markdown if the marker before it carries [markdown] and Code
\* otherwise, also when no marker comes before it. The script of spec.md
\* section 8 gives Code("code1"), Markdown("note"), Code("code2").
C17_OneScanInOrder ==
    Parsed =>
        /\ Len(transcoder.doc) = Cardinality(CellStarts(ScriptLines))
        /\ \A n \in 1..Len(transcoder.doc) :
              LET a == NthStart(ScriptLines, n)
              IN  /\ transcoder.doc[n].content
                        = join_lines(SubSeq(ScriptLines, a, CellEnd(ScriptLines, a)))
                  /\ transcoder.doc[n].kind
                        = IF a > 1 /\ Tagged(ScriptLines[a - 1]) THEN "Markdown" ELSE "Code"
        /\ transcoder.text = ExampleScript
              => transcoder.doc = <<Cell("Code", <<"code1">>), Cell("Markdown", <<"note">>),
                                    Cell("Code", <<"code2">>)>>

C17_Witness ==
    /\ Parsed
    /\ transcoder.text = ExampleScript
    /\ Len(transcoder.doc) = 3
    /\ transcoder.doc[2] = Cell("Markdown", <<"note">>)


IsDocument(d) ==
    /\ DOMAIN d = 1..Len(d)
    /\ \A n \in 1..Len(d) : d[n].kind \in {"Code", "Markdown"} /\ DOMAIN d[n].content = 1..Len(d[n].content)

\* C18: parseScript is total and permissive: every script, loaded or
\* rendered, parses to a document of Code and Markdown cells; the empty text gives zero
\* cells; a non-empty text none of whose lines is a marker gives exactly one
\* cell, of kind Code, whose content is the whole text.
C18_TotalAndPermissive ==
    /\ transcoder.phase \in {"script_loaded", "script_rendered"}
          => IsDocument(parseScript(transcoder.text))
    /\ Parsed =>
          /\ IsDocument(transcoder.doc)
          /\ transcoder.text = <<>> => transcoder.doc = <<>>
          /\ (/\ transcoder.text # <<>>
              /\ \A k \in 1..Len(split(transcoder.text)) :
                    ~is_marker(split(transcoder.text)[k]))
                => transcoder.doc = <<Cell("Code", transcoder.text)>>

C18_Witness ==
    /\ Parsed
    /\ transcoder.text = MarkerlessScript
    /\ transcoder.doc = <<Cell("Code", <<"x", NL, "y">>)>>


\* the document in hand is parseScript(renderScript(before))
RoundTripped == Parsed /\ transcoder.rounds >= 1

\* a document of Code cells only, each with non-empty content
CodeOnly(d) == \A n \in 1..Len(d) : d[n].kind = "Code" /\ d[n].content # <<>>

\* some line of the text is a marker
HasMarkerLine(text) == \E k \in 1..Len(split(text)) : is_marker(split(text)[k])

\* C19 as stated: every document of Code cells with non-empty content comes
\* back from render-then-parse with the same number of cells, all Code, in the
\* same order, each with its content or its content and the one blank line
\* renderScript put after it.
C19_CodeCellsRoundTrip ==
    (RoundTripped /\ CodeOnly(transcoder.before)) =>
        /\ Len(transcoder.doc) = Len(transcoder.before)
        /\ \A n \in 1..Len(transcoder.doc) :
              /\ transcoder.doc[n].kind = "Code"
              /\ transcoder.doc[n].content
                    \in {transcoder.before[n].content, transcoder.before[n].content \o <<NL>>}

\* C19, amended: the round trip reproduces a document of Code cells with
\* non-empty content when no line of a cell's content is itself a marker line;
\* every cell then comes back as Code with its content followed by one newline,
\* the blank line renderScript emitted after it.
C19_MarkerFreeCodeCellsRoundTrip ==
    (/\ RoundTripped
     /\ CodeOnly(transcoder.before)
     /\ \A n \in 1..Len(transcoder.before) : ~HasMarkerLine(transcoder.before[n].content)) =>
        /\ Len(transcoder.doc) = Len(transcoder.before)
        /\ \A n \in 1..Len(transcoder.doc) :
              /\ transcoder.doc[n].kind = "Code"
              /\ transcoder.doc[n].content = transcoder.before[n].content \o <<NL>>

C19_Witness ==
    /\ RoundTripped
    /\ transcoder.before = <<Cell("Code", <<"x", NL, "y">>), Cell("Code", <<"hello">>)>>
    /\ transcoder.doc = <<Cell("Code", <<"x", NL, "y", NL>>), Cell("Code", <<"hello", NL>>)>>


\* the text with one more comment prefix before every one of its lines
Prefixed(text) ==
    join_lines([k \in 1..Len(split(text)) |-> <<"#", " ">> \o split(text)[k]])

\* the cell comes back as a Markdown cell with one more prefix on every line,
\* with or without the blank line renderScript put after it
ComesBackPrefixed(cell) ==
    \E m \in 1..Len(transcoder.doc) :
        /\ transcoder.doc[m].kind = "Markdown"
        /\ transcoder.doc[m].content \in {Prefixed(cell.content), Prefixed(cell.content) \o <<NL>>}

\* C20 as stated: each render-then-parse round gives back every Markdown cell
\* with one more comment prefix on every line of its content.
C20_EveryMarkdownCellPrefixed ==
    RoundTripped =>
        \A n \in 1..Len(transcoder.before) :
            transcoder.before[n].kind = "Markdown" => ComesBackPrefixed(transcoder.before[n])

\* no line of the text begins with the percent pair
NoPercentLine(text) ==
    \A k \in 1..Len(split(text)) : split(text)[k] = <<>> \/ Head(split(text)[k]) # "%%"

\* C20, amended: a Markdown cell none of whose lines begins with the percent
\* pair comes back from each render-then-parse round as a Markdown cell whose
\* content is the old content with one more comment prefix on every line,
\* followed by one newline (the blank line renderScript emitted); prefixes are
\* never stripped, so "hello" gives "# hello" and a newline, not "hello".
C20_MarkdownPrefixesAccumulate ==
    RoundTripped =>
        /\ \A n \in 1..Len(transcoder.before) :
              (transcoder.before[n].kind = "Markdown"
                    /\ NoPercentLine(transcoder.before[n].content))
                 => \E m \in 1..Len(transcoder.doc) :
                        transcoder.doc[m]
                            = Cell("Markdown", Prefixed(transcoder.before[n].content) \o <<NL>>)
        /\ transcoder.before = <<Cell("Markdown", <<"hello">>)>>
              => transcoder.doc = <<Cell("Markdown", <<"#", " ", "hello", NL>>)>>

\* the second round of Markdown("hello"): two prefixes on the line, one on the
\* blank line absorbed in the first round
C20_Witness ==
    /\ RoundTripped
    /\ transcoder.rounds = 2
    /\ transcoder.before = <<Cell("Markdown", <<"#", " ", "hello", NL>>)>>
    /\ transcoder.doc = <<Cell("Markdown", <<"#", " ", "#", " ", "hello", NL, "#", " ", NL>>)>>


\* the marker lines of L, and the spans they delimit: span 0 runs from the
\* first line, span m from the line after marker line m, each up to the next
\* marker line
MarkerLines(L) == {m \in 1..Len(L) : is_marker(L[m])}
NonEmptySpans(L) ==
    {m \in {0} \cup MarkerLines(L) : m < Len(L) /\ ~is_marker(L[m + 1])}

\* C21: parseScript appends no cell for a span without lines: the document
\* has one cell for each span that has at least one line and none for the
\* span between two consecutive markers or after a marker that is the last
\* line, so it has at most one cell more than the script has marker lines.
C21_NoCellForEmptySpan ==
    Parsed =>
        /\ Len(transcoder.doc) = Cardinality(NonEmptySpans(ScriptLines))
        /\ Len(transcoder.doc) <= Cardinality(MarkerLines(ScriptLines)) + 1

\* a line, then two consecutive markers of which the second is the last line
C21_Witness ==
    /\ Parsed
    /\ transcoder.text = join_lines(<< <<"x">>, MarkerToken, marker_line("Markdown") >>)
    /\ transcoder.doc = <<Cell("Code", <<"x">>)>>


\* the 'args' of the request is a JSON array all of whose elements are strings
ArgsAreStrings ==
    /\ req.args.tag = "list"
    /\ \A i \in 1..Len(req.args.items) :
          req.args.items[i] # <<"number">> /\ req.args.items[i] # <<"None">>

\* C22 as stated: a JSON body whose 'args' is present and is not an array of
\* strings is answered 400 "'args' must be an array of strings" without a call
\* of execute_tito_command, and execute_tito_command is called only for a list
\* of strings.
C22_NonStringArgsRejected ==
    /\ (resp # NoResp /\ req.json /\ req.args.tag # "absent" /\ ~ArgsAreStrings)
          => /\ resp = [code |-> 400, status |-> "error",
                        text |-> <<"'args' must be an array of strings">>]
             /\ outcome = NoOutcome
    /\ outcome # NoOutcome => ArgsAreStrings


\* the arguments of the calls of execute_tito_command the request made, in order
CallArgs == [i \in 1..Len(served.calls) |-> served.calls[i].args]

C24_EveryOutcomeAnswered ==
    (served.endpoint \in {"module", "grade", "command"} /\ served.calls # <<>>) =>
        LET o == served.calls[1].outcome
        IN  /\ Len(served.calls) = 1
            /\ o.kind = "return"
                  => served.resp = [code |-> 200, status |-> "success", text |-> o.value]
            /\ o.kind = "raise"
                  => served.resp = [code |-> 500, status |-> "error", text |-> o.value]


\* C25 as stated: run_assignment_validation executes 'module complete' first
\* and 'grade autograde' only after the completion command succeeded; when
\* completion fails the answer is 500 with the failure of the completion and
\* autograde is not run; 'validation_complete' is answered only when both
\* commands succeeded, in that order.
C25_CompleteThenAutograde ==
    served.endpoint = "validate" =>
        /\ Len(served.calls) <= 2
        /\ Len(served.calls) >= 1
              => served.calls[1].args
                    = << <<"module">>, <<"complete">>, served.query.module >>
        /\ Len(served.calls) = 2
              => /\ served.calls[1].outcome.kind = "return"
                 /\ served.calls[2].args
                       = << <<"grade">>, <<"autograde">>, served.query.module \o <<"_tensor">> >>
        /\ (Len(served.calls) >= 1 /\ served.calls[1].outcome.kind = "raise")
              => /\ Len(served.calls) = 1
                 /\ served.resp = [code |-> 500, status |-> "error",
                                   text |-> served.calls[1].outcome.value]
        /\ served.resp.status = "validation_complete"
              => /\ Len(served.calls) = 2
                 /\ served.calls[1].outcome.kind = "return"
                 /\ served.calls[2].outcome.kind = "return"


\* run_tito_complete was called for the notebook request
TitoCompleteRan == served.endpoint = "notebook" /\ served.triple.called

\* C26 as stated: a RuntimeError of the tito command still gives a results
\* notebook, with success False and a processed_path, answered 200 with
\* 'success' false; processed_path is None, answered 500, exactly when the
\* copy of the upload or the creation of the results notebook raised;
\* success is True only if the tito command returned.
C26_TripleOfTitoComplete ==
    TitoCompleteRan =>
        LET t == served.triple
        IN  /\ t.processed_path = <<"None">>
                  <=> (t.copy = "raised" \/ t.create = "raised")
            /\ t.processed_path = <<"None">>
                  => served.resp.code = 500 /\ served.processed = <<>>
            /\ t.processed_path # <<"None">>
                  => /\ served.resp.code = 200
                     /\ served.resp.status = (IF t.success THEN "True" ELSE "False")
                     /\ Len(served.processed) = 1
                     /\ served.processed[1].name = t.processed_path
            /\ t.success
                  => Len(served.calls) = 1 /\ served.calls[1].outcome.kind = "return"
            /\ (/\ Len(served.calls) = 1
                /\ served.calls[1].outcome.kind = "raise"
                /\ t.copy = "ok"
                /\ t.create # "raised")
                  => t.processed_path # <<"None">> /\ ~t.success


\* the file names of the model by the first check they fail
NotIpynbNames == {<<"notes", ".", "txt">>}
NoNumberNames == {<<"tensor", ".", "ipynb">>}

\* C27: process_notebook checks, in this order, that there is a file part,
\* that its name is not empty, that its extension is .ipynb and that the name
\* gives a module number; a request failing a check is answered 400 by that
\* check and runs no tito command; only the last rejection has already written
\* the upload to the upload folder.
C27_ChecksInOrder ==
    served.endpoint = "notebook" =>
        LET file == served.query.file
            answer(message) ==
                /\ served.resp = [code |-> 400, status |-> "False", text |-> message]
                /\ served.calls = <<>>
                /\ ~served.triple.called
        IN  /\ ~file.present
                  => answer(<<"No file provided">>) /\ served.uploads = <<>>
            /\ (file.present /\ file.filename = <<>>)
                  => answer(<<"No file selected">>) /\ served.uploads = <<>>
            /\ (file.present /\ file.filename \in NotIpynbNames)
                  => /\ answer(<<"Invalid file type. Only .ipynb allowed">>)
                     /\ served.uploads = <<>>
            /\ (file.present /\ file.filename \in NoNumberNames)
                  => /\ answer(<<"Could not determine module number. Use format like 01_tensor.ipynb">>)
                     /\ Len(served.uploads) = 1
                     /\ served.uploads[1].content = file.content
            /\ (file.present /\ file.filename \notin NotIpynbNames \cup NoNumberNames \cup {<<>>})
                  => /\ served.triple.called
                     /\ Len(served.uploads) = 1
                     /\ served.resp.code # 400

\* rejected for its module number with the upload already stored
C27_Witness ==
    /\ served.endpoint = "notebook"
    /\ served.query.file.filename = <<"tensor", ".", "ipynb">>
    /\ served.resp.code = 400
    /\ served.uploads = <<[name |-> <<"TS", "_", "tensor", ".", "ipynb">>,
                           content |-> served.query.file.content]>>
    /\ served.calls = <<>>

\* a results notebook was written for the upload of the request
ResultsWritten ==
    /\ served.endpoint = "notebook"
    /\ served.triple.create = "ok"

\* C28: the notebook create_results_notebook writes has one cell more than the
\* original; the results cell, a markdown cell, is its first cell and the
\* original cells follow it unchanged and in their order; the original
\* notebook file keeps the content that was uploaded.
C28_ResultsCellFirst ==
    ResultsWritten =>
        LET original == served.query.file.content.cells
            written == served.processed[1].content.cells
        IN  /\ Len(served.processed) = 1
            /\ Len(written) = Len(original) + 1
            /\ written[1].cell_type = "markdown"
            /\ written[1].source[1] = <<"# TinyTorch Module Processing Results", NL, NL>>
            /\ \A i \in 1..Len(original) : written[i + 1] = original[i]
            /\ served.uploads[1].content = served.query.file.content
            /\ served.processed[1].name # served.uploads[1].name

\* a results notebook for an upload of a code cell followed by a markdown cell
C28_Witness ==
    /\ ResultsWritten
    /\ served.query.file.content.cells =
           <<[cell_type |-> "code", source |-> << <<"x = 1">> >>],
             [cell_type |-> "markdown", source |-> << <<"# title">> >>]>>
    /\ Len(served.processed[1].content.cells) = 3
    /\ served.processed[1].content.cells[2].cell_type = "code"

\* C29: health_check always answers 200 with status 'healthy'. Without a
\* TITO_PATH it starts no process and reports tito_found false,
\* tito_executable false and neither a version nor an error; with a TITO_PATH
\* it starts at most one process, '<TITO_PATH> --version', and never reports
\* both a version and an error.
C29_HealthAlwaysHealthy ==
    served.endpoint = "health" =>
        /\ served.resp.code = 200
        /\ served.resp.status = "healthy"
        /\ served.calls = <<>>
        /\ TITO_PATH = None =>
              /\ served.spawned = <<>>
              /\ ~served.health.tito_found
              /\ ~served.health.tito_executable
              /\ served.health.tito_version = None
              /\ served.health.tito_error = None
        /\ TITO_PATH # None =>
              /\ Len(served.spawned) <= 1
              /\ \A i \in 1..Len(served.spawned) :
                    served.spawned[i] = <<TITO_PATH, <<"--version">> >>
        /\ served.health.tito_version = None \/ served.health.tito_error = None

\* a health response that reports the version of a tito that ran
C29_Witness ==
    /\ served.endpoint = "health"
    /\ TITO_PATH # None
    /\ Len(served.spawned) = 1
    /\ served.health.tito_executable
    /\ served.health.tito_version = <<"out">>
    /\ served.health.tito_error = None

\* how often the package directory occurs in a PYTHONPATH value
Occurrences(pythonpath) ==
    Cardinality({i \in 1..Len(pythonpath) : <<pythonpath[i]>> = tinytorch_paths[1]})

\* the thread has prepared the env of its call
HasPrepared(t) ==
    \/ threads[t].state \in {"prepared", "running"}
    \/ threads[t].state = "done" /\ threads[t].outcome.branch # "not_resolved"

\* C30: execute_tito_command changes no process-wide state. While requests
\* are served no step of a call, successful or failed, changes os.environ or
\* TITO_PATH; the PYTHONPATH a call prepares holds the package directory as
\* often as os.environ does, once more if the directory exists, whatever
\* calls came before it or run beside it.
C30_NoProcessWideState ==
    /\ [][pc = "serving" => environ' = environ /\ TITO_PATH' = TITO_PATH]_vars
    /\ [](\A t \in Threads : HasPrepared(t) =>
            /\ threads[t].env = prepare_env(environ, threads[t].fs)
            /\ Occurrences(threads[t].env.PYTHONPATH) =
                  Occurrences(environ.PYTHONPATH)
                      + (IF threads[t].fs.dirs[1] THEN 1 ELSE 0))

\* one call has failed and another call has prepared its env with the package
\* directory once, os.environ still without it
C30_Witness ==
    /\ threads[1].state = "done"
    /\ threads[1].outcome.branch = "called_process_error"
    /\ threads[1].fs.dirs[1]
    /\ threads[2].state = "prepared"
    /\ threads[2].fs.dirs[1]
    /\ Occurrences(threads[2].env.PYTHONPATH) = 1
    /\ Occurrences(environ.PYTHONPATH) = 0

====
